---- MODULE Spec2Model ----
(***************************************************************************)
(* A model of the Conditional Access Policy audit scripts:                 *)
(*   resolve_cap_id.py  collect ids, resolve them against the directory    *)
(*                      (cached), fetch the named locations page by page,  *)
(*                      rewrite the document;                              *)
(*   cap_parser.py      normalise each policy and derive security flags.   *)
(* The directory is the environment: every HTTP request is answered by a   *)
(* nondeterministic choice, so its answers may change from call to call.   *)
(* One step of the resolver is one HTTP request together with the handling *)
(* of its response.                                                        *)
(***************************************************************************)
EXTENDS Integers, Sequences, FiniteSets, TLC

VARIABLES
    doc,              \* cap_data["value"]: the policies of CAP.json, rewritten in place
    cache,            \* the ResolutionCache dict of __main__
    pc,               \* position of __main__ in resolve_cap_id.py
    all_ids,          \* the list returned by collect_all_ids
    idx,              \* position of the bulk resolution loop in all_ids
    frame,            \* the running resolve_display_name call: its id and next probe
    probes,           \* the requests issued by the current (or last) resolver call
    last,             \* the last completed resolver call: id, value, repeated or not
    firstRet,         \* history: the value each id's first completed call returned
    authFailed,       \* history: some directory call answered 401/403
    statuses,         \* history: the status answered to each page request, in order
    rw,               \* position of replace_ids_with_names: policy, key, element
    pages,            \* the directory's named-location pages
    url,              \* get_named_locations: the page to request next (0: None)
    named_locations,  \* get_named_locations: the mapping built so far
    requests,         \* the page requests issued so far, in order
    policies,         \* cap_parser.py: the policies handed to generate_security_flags
    pos,              \* position of its loop in policies
    findings,         \* its findings list
    fpc,              \* "idle", "loop", "done" (returned) or "raised"
    summary,          \* the outcome of the last summarize_policy call
    issues            \* the issues list of the last policy evaluated

runVars == <<doc, cache, pc, all_ids, idx, frame, probes, last, firstRet,
             authFailed, statuses, rw, pages, url, named_locations, requests>>

flagVars == <<policies, pos, findings, fpc, summary, issues>>

vars == <<runVars, flagVars>>

----------------------------------------------------------------------------
(* Sequences and python values *)

Rep(c, n) == [i \in 1..n |-> c]

Range(s) == {s[i] : i \in 1..Len(s)}

\* python's `a or b` on strings: the empty string (like None or an absent key
\* read with .get) is falsy
PyOr(a, b) == IF a # "" THEN a ELSE b

\* a JSON member that may be absent, null or a list
Absent == [tag |-> "absent", v |-> <<>>]
Null == [tag |-> "null", v |-> <<>>]
L(s) == [tag |-> "list", v |-> s]

\* dict.get(key, []) of a member that is not null
GetList(m) == IF m.tag = "list" THEN m.v ELSE <<>>

----------------------------------------------------------------------------
(* Identifiers *)

U1 == "11111111-1111-1111-1111-111111111111"
A1 == "aaaaaaaa-aaaa-aaaa-aaaa-aaaaaaaaaaaa"
SentinelAll == "All"
SentinelGuests == "GuestsOrExternalUsers"
Loc1 == "0c0c0c0c-0c0c-0c0c-0c0c-0c0c0c0c0c0c"

GuidOf(c) ==
    Rep(c, 8) \o <<"-">> \o Rep(c, 4) \o <<"-">> \o Rep(c, 4) \o <<"-">>
        \o Rep(c, 4) \o <<"-">> \o Rep(c, 12)

\* the characters of each identifier
Chars(s) ==
    CASE s = U1 -> GuidOf("1")
      [] s = A1 -> GuidOf("a")
      [] s = SentinelAll -> <<"A", "l", "l">>
      [] s = SentinelGuests ->
            <<"G", "u", "e", "s", "t", "s", "O", "r", "E", "x", "t", "e", "r",
              "n", "a", "l", "U", "s", "e", "r", "s">>
      [] s = "mfa" -> <<"m", "f", "a">>
      [] s = "Mfa" -> <<"M", "f", "a">>
      [] s = "block" -> <<"b", "l", "o", "c", "k">>
      [] s = "compliantDevice" ->
            <<"c", "o", "m", "p", "l", "i", "a", "n", "t", "D", "e", "v", "i",
              "c", "e">>
      [] s = "requireMultifactorAuthentication" ->
            <<"r", "e", "q", "u", "i", "r", "e", "M", "u", "l", "t", "i", "f",
              "a", "c", "t", "o", "r", "A", "u", "t", "h", "e", "n", "t", "i",
              "c", "a", "t", "i", "o", "n">>
      [] OTHER -> <<>>

HexDash ==
    {"0", "1", "2", "3", "4", "5", "6", "7", "8", "9", "a", "b", "c", "d",
     "e", "f", "A", "B", "C", "D", "E", "F", "-"}

GuidLen == 36

is_guid(value) ==
    /\ Len(Chars(value)) = GuidLen
    /\ \A i \in 1..Len(Chars(value)) : Chars(value)[i] \in HexDash

MinIdLen == 10

----------------------------------------------------------------------------
(* The directory's answers *)

NoBody == [displayName |-> "", appDisplayName |-> "", userPrincipalName |-> ""]

Bodies ==
    { [displayName |-> "Alice", appDisplayName |-> "AppA", userPrincipalName |-> "alice@x"],
      [displayName |-> "", appDisplayName |-> "AppA", userPrincipalName |-> "alice@x"],
      [displayName |-> "", appDisplayName |-> "", userPrincipalName |-> "alice@x"],
      NoBody }

StatusOk == 200

\* 404: no such object; 401, 403: the token is expired or lacks the scope
NotFoundStatuses == {404}
AuthStatuses == {401, 403}

\* the failures the directory answers a probe with
FailureStatuses == NotFoundStatuses \cup {401}

\* answers to GET /<entity>/<id>
ObjectResponses ==
    { [status |-> st, obj |-> NoBody, value |-> <<>>] : st \in FailureStatuses }
    \cup { [status |-> StatusOk, obj |-> b, value |-> <<>>] : b \in Bodies }

\* answers to GET /<entity>?$filter=appId eq '<id>'
FilterResponses ==
    { [status |-> st, obj |-> NoBody, value |-> <<>>] : st \in FailureStatuses }
    \cup { [status |-> StatusOk, obj |-> NoBody, value |-> v] :
             v \in { <<>>,
                     <<[displayName |-> "", appDisplayName |-> "AppA", userPrincipalName |-> ""],
                       [displayName |-> "Alice", appDisplayName |-> "", userPrincipalName |-> ""]>>,
                     <<NoBody>> } }

----------------------------------------------------------------------------
(* resolve_display_name *)

\* users probed before applications
ObjectUrlsUsersFirst ==
    << [entity |-> "servicePrincipals", by |-> "id"],
       [entity |-> "users", by |-> "id"],
       [entity |-> "applications", by |-> "id"],
       [entity |-> "groups", by |-> "id"] >>

ObjectUrls ==
    << [entity |-> "servicePrincipals", by |-> "id"],
       [entity |-> "applications", by |-> "id"],
       [entity |-> "users", by |-> "id"],
       [entity |-> "groups", by |-> "id"] >>

AppIdUrls ==
    << [entity |-> "servicePrincipals", by |-> "appId"],
       [entity |-> "applications", by |-> "appId"] >>

ProbeUrls == ObjectUrls \o AppIdUrls

NoFrame == [id |-> "", stage |-> 0]
NoCall == [id |-> "", value |-> "", again |-> FALSE]

\* the resolver without its cache check
CacheHitNever(object_id, c) == FALSE

\* `if object_id in cache`
CacheHit(object_id, c) == object_id \in DOMAIN c

\* a cache that keeps only its newest entry
CachePutAlone(c, object_id, display_name) == [k \in {object_id} |-> display_name]

\* `cache[object_id] = display_name`
CachePut(c, object_id, display_name) ==
    [k \in DOMAIN c \cup {object_id} |-> IF k = object_id THEN display_name ELSE c[k]]

\* the name chain without its last resort, the id
ObjectNameNoId(data, object_id) ==
    PyOr(data.displayName, PyOr(data.appDisplayName, data.userPrincipalName))

\* the name taken from a found object
ObjectName(data, object_id) ==
    PyOr(data.displayName, PyOr(data.appDisplayName, PyOr(data.userPrincipalName, object_id)))

\* the name taken from the first match of an appId filter
FilterName(data_list, object_id) ==
    PyOr(data_list[1].displayName, PyOr(data_list[1].appDisplayName, object_id))

\* whether the answer to probe number `stage` ends the call, and with which name
ProbeFound(stage, resp) ==
    IF stage <= Len(ObjectUrls)
    THEN resp.status = StatusOk
    ELSE resp.status = StatusOk /\ resp.value # <<>>

ProbeName(stage, resp, object_id) ==
    IF stage <= Len(ObjectUrls)
    THEN ObjectName(resp.obj, object_id)
    ELSE FilterName(resp.value, object_id)

\* the appId lookup tried for every id, GUID-shaped or not
NextStageAnyId(stage, object_id) ==
    IF stage < Len(ProbeUrls) THEN stage + 1 ELSE 0

\* the probe that follows an unsuccessful probe number `stage` (0: none is left)
NextStage(stage, object_id) ==
    IF stage < Len(ObjectUrls) THEN stage + 1
    ELSE IF stage = Len(ObjectUrls)
         THEN (IF is_guid(object_id) THEN stage + 1 ELSE 0)
    ELSE IF stage < Len(ProbeUrls) THEN stage + 1
    ELSE 0

----------------------------------------------------------------------------
(* The document: cap_data["value"] *)

UserKeys == <<"includeUsers", "excludeUsers", "includeGroups">>
AppKeys == <<"includeApplications", "excludeApplications">>
LocKeys == <<"includeLocations", "excludeLocations">>
IdentityKeys == UserKeys \o AppKeys
Keys == IdentityKeys \o LocKeys

\* the member of `conditions` that holds key number k
SecOf(k) ==
    IF k <= Len(UserKeys) THEN "users"
    ELSE IF k <= Len(IdentityKeys) THEN "applications"
    ELSE "locations"

NoUsers(tag) ==
    [tag |-> tag, includeUsers |-> Absent, excludeUsers |-> Absent, includeGroups |-> Absent]
NoApps(tag) ==
    [tag |-> tag, includeApplications |-> Absent, excludeApplications |-> Absent]
NoLocs(tag) ==
    [tag |-> tag, includeLocations |-> Absent, excludeLocations |-> Absent]

Cond(u, a, l) ==
    [conditions |-> [tag |-> "obj", users |-> u, applications |-> a, locations |-> l]]

\* a dict is truthy when it has a member
Truthy(sec, d) ==
    /\ d.tag = "obj"
    /\ \E k \in 1..Len(Keys) : SecOf(k) = sec /\ d[Keys[k]].tag # "absent"

\* `cond.get(sec, {}) or {}` is the document's own dict, not a fresh one
Attached(policy, sec) ==
    /\ policy.conditions.tag = "obj"
    /\ Truthy(sec, policy.conditions[sec])

\* `(cond.get(sec, {}) or {}).get(key)`
Member(policy, k) ==
    IF Attached(policy, SecOf(k)) THEN policy.conditions[SecOf(k)][Keys[k]] ELSE Absent

----------------------------------------------------------------------------
(* collect_all_ids *)

\* ids.update(...) is handed None
CollectRaises(d) ==
    \E p \in 1..Len(d), k \in 1..Len(IdentityKeys) : Member(d[p], k).tag = "null"

CollectedSet(d) ==
    UNION { Range(GetList(Member(d[p], k))) : p \in 1..Len(d), k \in 1..Len(IdentityKeys) }

\* `[i for i in ids if isinstance(i, str) and len(i) > 10]`
KeepId(i) == Len(i) > MinIdLen

collect_all_ids(d) == {i \in CollectedSet(d) : KeepId(i)}

\* a python set is iterated in an arbitrary order
Orders(S) == {s \in [1..Cardinality(S) -> S] : Range(s) = S}

----------------------------------------------------------------------------
(* get_named_locations *)

NoKey == "<no key>"

Loc2 == "0d0d0d0d-0d0d-0d0d-0d0d-0d0d0d0d0d0d"
Loc3 == "0e0e0e0e-0e0e-0e0e-0e0e-0e0e0e0e0e0e"
Loc4 == "0f0f0f0f-0f0f-0f0f-0f0f-0f0f0f0f0f0f"
Loc5 == "1a1a1a1a-1a1a-1a1a-1a1a-1a1a1a1a1a1a"

EmptyMap == [k \in {} |-> ""]

\* a loop that keeps only the first entry of each page
AddLocationsFirstOnly(m, entries) ==
    IF entries = <<>> THEN m
    ELSE CachePut(m, Head(entries).id,
                  IF Head(entries).displayName = NoKey
                  THEN Head(entries).id ELSE Head(entries).displayName)

\* `named_locations[loc["id"]] = loc.get("displayName", loc["id"])`, entry by entry
RECURSIVE AddLocations(_, _)
AddLocations(m, entries) ==
    IF entries = <<>> THEN m
    ELSE AddLocations(
           CachePut(m, Head(entries).id,
                    IF Head(entries).displayName = NoKey
                    THEN Head(entries).id ELSE Head(entries).displayName),
           Tail(entries))

\* loc["id"] of an entry without id, or iterating a null value
PageRaises(data) ==
    \/ data.value.tag = "null"
    \/ \E i \in 1..Len(data.value.v) : data.value.v[i].id = NoKey

PageStatuses == {StatusOk, 401, 500}

\* a request whose status is never looked at
RaisesForStatusNever(status) == FALSE

\* raise_for_status()
RaisesForStatus(status) == status >= 400

----------------------------------------------------------------------------
(* replace_ids_with_names *)

StartRewrite == [pol |-> 1, key |-> 1, elem |-> 1, pending |-> <<>>]

Advance(r) ==
    IF r.key < Len(Keys)
    THEN [pol |-> r.pol, key |-> r.key + 1, elem |-> 1, pending |-> <<>>]
    ELSE [pol |-> r.pol + 1, key |-> 1, elem |-> 1, pending |-> <<>>]

\* `named_locations.get(lid, lid)`
LocationName(m, lid) == IF lid \in DOMAIN m THEN m[lid] ELSE lid

Assign(d, r, list) ==
    [d EXCEPT ![r.pol].conditions[SecOf(r.key)][Keys[r.key]] = L(list)]

----------------------------------------------------------------------------
(* The inputs *)

PolicyFull ==
    Cond([tag |-> "obj", includeUsers |-> L(<<SentinelAll>>),
          excludeUsers |-> L(<<U1>>), includeGroups |-> Absent],
         [tag |-> "obj", includeApplications |-> L(<<SentinelAll>>),
          excludeApplications |-> Absent],
         [tag |-> "obj", includeLocations |-> L(<<Loc1, Loc3>>),
          excludeLocations |-> Absent])

PolicyGuests ==
    Cond([tag |-> "obj", includeUsers |-> L(<<SentinelGuests>>),
          excludeUsers |-> L(<<>>),
          includeGroups |-> L(<<SentinelGuests, SentinelGuests>>)],
         NoApps("absent"),
         NoLocs("null"))

PolicyNoConditions ==
    [conditions |->
        [tag |-> "null", users |-> NoUsers("absent"),
         applications |-> NoApps("absent"), locations |-> NoLocs("absent")]]

PolicyEmptyUsers ==
    Cond(NoUsers("obj"),
         [tag |-> "obj", includeApplications |-> Absent,
          excludeApplications |-> L(<<A1>>)],
         [tag |-> "obj", includeLocations |-> L(<<SentinelAll>>),
          excludeLocations |-> L(<<Loc2>>)])

PolicyNullList ==
    Cond([tag |-> "obj", includeUsers |-> L(<<U1>>),
          excludeUsers |-> Null, includeGroups |-> Absent],
         NoApps("absent"),
         [tag |-> "obj", includeLocations |-> Null, excludeLocations |-> Absent])

PolicySet ==
    {PolicyFull, PolicyGuests, PolicyNoConditions, PolicyEmptyUsers, PolicyNullList}

MaxPolicies == 2

Docs == UNION { [1..n -> PolicySet] : n \in 0..MaxPolicies }

Page(entries, next) == [value |-> L(entries), next |-> next]
Entry(id, name) == [id |-> id, displayName |-> name]

\* the named locations the directory serves during a full run
RunPages ==
    << Page(<<Entry(Loc1, "HQ")>>, 2),
       Page(<<Entry(Loc2, NoKey)>>, 0) >>

----------------------------------------------------------------------------
(* __main__ of resolve_cap_id.py *)

\* cap_parser.py is not running
FlagsIdle ==
    /\ policies = <<>>
    /\ pos = 1
    /\ findings = <<>>
    /\ fpc = "idle"
    /\ summary = [called |-> FALSE, raised |-> FALSE, s |-> <<>>]
    /\ issues = <<>>

Init ==
    /\ FlagsIdle
    /\ doc \in Docs
    /\ cache = EmptyMap
    /\ pc = "collect"
    /\ all_ids = <<>>
    /\ idx = 1
    /\ frame = NoFrame
    /\ probes = <<>>
    /\ last = NoCall
    /\ firstRet = EmptyMap
    /\ authFailed = FALSE
    /\ statuses = <<>>
    /\ rw = StartRewrite
    /\ pages = RunPages
    /\ url = 0
    /\ named_locations = EmptyMap
    /\ requests = <<>>

\* line 115: all_ids = collect_all_ids(cap_data)
CollectAllIds ==
    /\ UNCHANGED flagVars
    /\ pc = "collect"
    /\ IF CollectRaises(doc)
       THEN pc' = "raised" /\ UNCHANGED all_ids
       ELSE /\ all_ids' \in Orders(collect_all_ids(doc))
            /\ pc' = "resolve"
    /\ UNCHANGED <<doc, cache, idx, frame, probes, last, firstRet, authFailed, statuses,
                   rw, pages, url, named_locations, requests>>

\* resolve_display_name returns display_name with the cache as c: the caller goes on
Completed(object_id, display_name, c) ==
    /\ cache' = c
    /\ last' = [id |-> object_id, value |-> display_name,
                again |-> object_id \in DOMAIN firstRet]
    /\ firstRet' = IF object_id \in DOMAIN firstRet THEN firstRet
                   ELSE CachePut(firstRet, object_id, display_name)
    /\ frame' = NoFrame
    /\ IF pc = "resolve"
       THEN idx' = idx + 1 /\ UNCHANGED rw
       ELSE /\ rw' = [rw EXCEPT !.pending = Append(@, display_name), !.elem = @ + 1]
            /\ UNCHANGED idx

\* resolve_display_name(object_id, token, cache) is called: lines 24-27
Begin(object_id) ==
    /\ probes' = <<>>
    /\ UNCHANGED <<authFailed, statuses>>
    /\ IF CacheHit(object_id, cache)
       THEN Completed(object_id, cache[object_id], cache)
       ELSE /\ frame' = [id |-> object_id, stage |-> 1]
            /\ UNCHANGED <<cache, last, firstRet, idx, rw>>

\* lines 122-125: the bulk resolution loop calls the resolver for the next id
BulkResolve ==
    /\ UNCHANGED flagVars
    /\ pc = "resolve"
    /\ frame = NoFrame
    /\ idx <= Len(all_ids)
    /\ Begin(all_ids[idx])
    /\ UNCHANGED <<doc, pc, all_ids, pages, url, named_locations, requests>>

\* lines 127-128: the loop is over, get_named_locations starts at the first page
BulkDone ==
    /\ UNCHANGED flagVars
    /\ pc = "resolve"
    /\ frame = NoFrame
    /\ idx > Len(all_ids)
    /\ pc' = "locations"
    /\ url' = 1
    /\ UNCHANGED <<doc, cache, all_ids, idx, frame, probes, last, firstRet,
                   authFailed, statuses, rw, pages, named_locations, requests>>

\* lines 30-56: one request of the running resolver call and what its answer leads to
Probe ==
    /\ UNCHANGED flagVars
    /\ frame # NoFrame
    /\ \E resp \in (IF frame.stage <= Len(ObjectUrls)
                    THEN ObjectResponses ELSE FilterResponses) :
        /\ probes' = Append(probes, [url |-> ProbeUrls[frame.stage],
                                     id |-> frame.id,
                                     found |-> ProbeFound(frame.stage, resp),
                                     displayName |-> resp.obj.displayName])
        /\ authFailed' = (authFailed \/ resp.status \in AuthStatuses)
        /\ UNCHANGED statuses
        /\ IF ProbeFound(frame.stage, resp)
           THEN Completed(frame.id, ProbeName(frame.stage, resp, frame.id),
                          CachePut(cache, frame.id,
                                   ProbeName(frame.stage, resp, frame.id)))
           ELSE IF NextStage(frame.stage, frame.id) = 0
           THEN Completed(frame.id, frame.id, CachePut(cache, frame.id, frame.id))
           ELSE /\ frame' = [frame EXCEPT !.stage = NextStage(frame.stage, frame.id)]
                /\ UNCHANGED <<cache, last, firstRet, idx, rw>>
    /\ UNCHANGED <<doc, pc, all_ids, pages, url, named_locations, requests>>

\* a loop that asks again for a page that carried no next link
NextUrlRetry(data) == IF data.next = 0 THEN url ELSE data.next

\* line 71: url = data.get("@odata.nextLink")
NextUrl(data) == data.next

MaxRequests == 4

\* lines 65-73: one page request of get_named_locations; it returns after a page
\* without a next link (line 132 follows)
PageRequest ==
    /\ UNCHANGED flagVars
    /\ pc = "locations"
    /\ url # 0
    /\ Len(requests) < MaxRequests
    /\ requests' = Append(requests, url)
    /\ \E status \in PageStatuses :
        /\ authFailed' = (authFailed \/ status \in AuthStatuses)
        /\ statuses' = Append(statuses, status)
        /\ IF RaisesForStatus(status) \/ PageRaises(pages[url])
           THEN pc' = "raised" /\ UNCHANGED <<url, named_locations>>
           ELSE /\ named_locations' =
                      AddLocations(named_locations, GetList(pages[url].value))
                /\ url' = NextUrl(pages[url])
                /\ pc' = IF NextUrl(pages[url]) = 0 THEN "rewrite" ELSE pc
    /\ UNCHANGED <<doc, cache, all_ids, idx, frame, probes, last, firstRet,
                   rw, pages>>

\* lines 77-92: replace_ids_with_names moves on by one element or one key
RewriteStep ==
    /\ UNCHANGED flagVars
    /\ pc = "rewrite"
    /\ frame = NoFrame
    /\ UNCHANGED <<all_ids, pages, url, named_locations, requests>>
    /\ IF rw.pol > Len(doc)
       THEN /\ pc' = "done"
            /\ UNCHANGED <<doc, cache, idx, frame, probes, last, firstRet,
                           authFailed, statuses, rw>>
       ELSE IF ~Attached(doc[rw.pol], SecOf(rw.key))
       THEN /\ rw' = Advance(rw)
            /\ UNCHANGED <<doc, cache, pc, idx, frame, probes, last, firstRet,
                           authFailed, statuses>>
       ELSE IF Member(doc[rw.pol], rw.key).tag = "null"
       THEN /\ pc' = "raised"
            /\ UNCHANGED <<doc, cache, idx, frame, probes, last, firstRet,
                           authFailed, statuses, rw>>
       ELSE IF rw.key > Len(IdentityKeys)
       THEN /\ doc' = Assign(doc, rw,
                        [i \in 1..Len(GetList(Member(doc[rw.pol], rw.key))) |->
                            LocationName(named_locations,
                                         GetList(Member(doc[rw.pol], rw.key))[i])])
            /\ rw' = Advance(rw)
            /\ UNCHANGED <<cache, pc, idx, frame, probes, last, firstRet, authFailed, statuses>>
       ELSE IF rw.elem > Len(GetList(Member(doc[rw.pol], rw.key)))
       THEN /\ doc' = Assign(doc, rw, rw.pending)
            /\ rw' = Advance(rw)
            /\ UNCHANGED <<cache, pc, idx, frame, probes, last, firstRet, authFailed, statuses>>
       ELSE /\ Begin(GetList(Member(doc[rw.pol], rw.key))[rw.elem])
            /\ UNCHANGED <<doc, pc>>

Next ==
    \/ CollectAllIds
    \/ BulkResolve
    \/ BulkDone
    \/ Probe
    \/ PageRequest
    \/ RewriteStep

Spec == Init /\ [][Next]_vars

----------------------------------------------------------------------------
(* The resolver's claims, under Spec *)

\* C1: cache idempotence. Every completed resolver call leaves cache[id] equal
\* to the value it returned; that value is the one the first completed call for
\* the id returned; and a repeated call for the id issued no request at all,
\* whatever the directory would answer by then.
C1_CacheIdempotence ==
    /\ \A k \in DOMAIN firstRet : k \in DOMAIN cache /\ cache[k] = firstRet[k]
    /\ last.id # "" =>
          /\ last.id \in DOMAIN cache
          /\ cache[last.id] = last.value
          /\ last.value = firstRet[last.id]
          /\ (frame = NoFrame /\ last.again) => probes = <<>>

\* a resolved name is returned a second time, during the rewrite
C1_Witness ==
    /\ pc = "rewrite"
    /\ frame = NoFrame
    /\ last.again
    /\ last.id = U1
    /\ last.value = "Alice"

ExpectedOrder == <<"servicePrincipals", "applications", "users", "groups">>

\* C2: fallback ordering. The object-id requests of a call go out in the order
\* servicePrincipals, applications, users, groups, one per type, all for the
\* call's id, and none follows a request that was answered 200; when only the
\* groups request succeeds the call returns that group's displayName.
C2_FallbackOrder ==
    /\ \A i \in 1..Len(probes) :
          /\ i <= 4 => probes[i].url = [entity |-> ExpectedOrder[i], by |-> "id"]
          /\ i < Len(probes) => ~probes[i].found
          /\ frame # NoFrame => (probes[i].id = frame.id /\ ~probes[i].found)
          /\ (frame = NoFrame /\ last.id # "") => probes[i].id = last.id
    /\ (frame = NoFrame /\ Len(probes) = 4 /\ probes[4].found
            /\ probes[4].displayName # "")
          => last.value = probes[4].displayName

\* only the groups request was answered 200, after the three others
C2_Witness ==
    /\ frame = NoFrame
    /\ Len(probes) = 4
    /\ probes[4].found
    /\ probes[4].url.entity = "groups"
    /\ last.value = "Alice"

\* C3: resolver totality. A call never leaves the resolver by an exception, it
\* issues at most six requests, every value it returns is a non-empty string,
\* and when no request finds the id the value is the id itself.
C3_Totality ==
    /\ frame # NoFrame =>
          /\ pc \in {"resolve", "rewrite"}
          /\ Len(probes) = frame.stage - 1
          /\ frame.stage <= 6
    /\ last.id # "" => last.value # ""
    /\ (frame = NoFrame /\ last.id # "" /\ probes # <<>>
            /\ \A i \in 1..Len(probes) : ~probes[i].found)
          => last.value = last.id

\* all six requests of a call for a GUID failed and the id came back
C3_Witness ==
    /\ frame = NoFrame
    /\ Len(probes) = 6
    /\ \A i \in 1..Len(probes) : ~probes[i].found
    /\ last.id = U1
    /\ last.value = U1

\* a found object without any name field resolves to the id
C3_WitnessNoNames ==
    /\ frame = NoFrame
    /\ Len(probes) = 1
    /\ probes[1].found
    /\ last.value = last.id

\* C4: the rewrite pass performs no network access: while
\* replace_ids_with_names runs, no resolver request is issued.
C4_RewriteNoNetwork ==
    ~(pc = "rewrite" /\ frame # NoFrame /\ probes # <<>>)

\* C7: the cache is write-once. No step of the run removes a key of the cache
\* or changes the value of a key it holds.
C7_WriteOnce ==
    [][\A k \in DOMAIN cache : k \in DOMAIN cache' /\ cache'[k] = cache[k]]_vars

\* the run is over with two ids cached, one of them read again by the rewrite
C7_Witness ==
    /\ pc = "done"
    /\ Cardinality(DOMAIN cache) >= 2
    /\ last.again

\* C8: an authentication or authorization failure is fatal: once a directory
\* call was answered 401 or 403, the run is aborted.
C8_AuthFailureAborts ==
    authFailed => pc = "raised"

\* C12: a failed named-location page request is fatal. Once a page request,
\* the first or a later one, was answered by a failure status, the run is
\* aborted: that request was the last one, get_named_locations has returned
\* no mapping, and replace_ids_with_names has not taken a step.
C12_PageFailureFatal ==
    \A i \in 1..Len(statuses) :
        statuses[i] # StatusOk =>
            /\ i = Len(statuses)
            /\ pc = "raised"
            /\ rw = StartRewrite

\* the second page request failed after the first page had filled the mapping
C12_Witness ==
    /\ Len(statuses) = 2
    /\ statuses[1] = StatusOk
    /\ statuses[2] # StatusOk
    /\ named_locations # EmptyMap
    /\ pc = "raised"

\* the list stored under key number k of a policy, present or not
Stored(policy, k) == policy.conditions[SecOf(k)][Keys[k]]

\* C14: frame of the rewrite. No step of the run changes the number of
\* policies, adds or removes one of the seven list keys, turns a member dict
\* or the conditions object into something else, or changes the length of a
\* list: a key that is absent stays absent, a list keeps its length.
C14_RewriteFrame ==
    [][ /\ Len(doc') = Len(doc)
        /\ \A p \in 1..Len(doc) :
              /\ doc'[p].conditions.tag = doc[p].conditions.tag
              /\ \A k \in 1..Len(Keys) :
                    /\ doc'[p].conditions[SecOf(k)].tag = doc[p].conditions[SecOf(k)].tag
                    /\ Stored(doc'[p], k).tag = Stored(doc[p], k).tag
                    /\ Len(Stored(doc'[p], k).v) = Len(Stored(doc[p], k).v) ]_vars

\* C15: replacement values of the rewrite. Every name the rewrite puts in the
\* place of an element of an identity list is the cache value of the element
\* when the element is a cache key and the element itself when it is not; every
\* element of a location list is replaced by the name the location map holds
\* for it, or by itself when the map has none.
C15_ReplacementValues ==
    [][ pc = "rewrite" /\ rw.pol <= Len(doc) =>
          LET old == GetList(Member(doc[rw.pol], rw.key))
          IN  /\ Len(rw'.pending) = Len(rw.pending) + 1 =>
                    rw'.pending[Len(rw'.pending)] =
                        (IF old[rw.elem] \in DOMAIN cache
                         THEN cache[old[rw.elem]] ELSE old[rw.elem])
              /\ (rw.key > Len(IdentityKeys) /\ doc' # doc) =>
                    \A i \in 1..Len(old) :
                        Stored(doc'[rw.pol], rw.key).v[i] =
                            (IF old[i] \in DOMAIN named_locations
                             THEN named_locations[old[i]] ELSE old[i]) ]_vars

\* C19: probe budget and appId fallback. The requests of one resolver call are
\* at most six; a request by appId is the fifth or the sixth, follows four
\* unsuccessful requests by object id, is made for a GUID-shaped id only, and
\* goes to servicePrincipals first, to applications second; no request follows
\* a successful one; a call for an id that is not GUID-shaped makes at most
\* four requests and a call for a cached id none; and a call that ends on a
\* non-empty filter answer returns the name of that answer's first element.
C19_ProbeBudget ==
    /\ Len(probes) <= Len(ObjectUrls) + 2
    /\ \A i \in 1..Len(probes) :
          /\ i < Len(probes) => ~probes[i].found
          /\ probes[i].url.by = "appId" <=> i > Len(ObjectUrls)
          /\ i > Len(ObjectUrls) => is_guid(probes[i].id)
          /\ i = Len(ObjectUrls) + 1 => probes[i].url.entity = "servicePrincipals"
          /\ i = Len(ObjectUrls) + 2 => probes[i].url.entity = "applications"
    /\ (frame # NoFrame /\ ~is_guid(frame.id)) => Len(probes) < Len(ObjectUrls)
    /\ (frame = NoFrame /\ last.id # "" /\ last.again) => probes = <<>>
    /\ (frame = NoFrame /\ Len(probes) > Len(ObjectUrls) /\ probes[Len(probes)].found)
          => \E r \in FilterResponses :
                /\ r.value # <<>>
                /\ last.value = PyOr(r.value[1].displayName,
                                     PyOr(r.value[1].appDisplayName, last.id))

\* five requests failed and the sixth, the appId filter on applications,
\* returned two matches: the call returned the first one's name
C19_Witness ==
    /\ frame = NoFrame
    /\ Len(probes) = 6
    /\ probes[6].found
    /\ probes[6].url = [entity |-> "applications", by |-> "appId"]
    /\ last.id = U1
    /\ last.value = "AppA"

\* the sentinel keywords of an identity list
Sentinels == {SentinelAll, "None", SentinelGuests}

\* C11: sentinel pass-through. A sentinel keyword is never in the list
\* returned by collect_all_ids, and no directory request is ever issued for
\* it, neither by the bulk resolution nor by the rewrite.
C11_SentinelPassThrough ==
    /\ \A i \in 1..Len(all_ids) : all_ids[i] \notin Sentinels
    /\ \A i \in 1..Len(probes) : probes[i].id \notin Sentinels

----------------------------------------------------------------------------
(* get_named_locations alone, against any directory of pages: SpecPages *)

PageValues ==
    { L(<<>>),
      L(<<Entry(Loc1, "HQ"), Entry(Loc2, "Branch")>>),
      L(<<Entry(Loc3, "VPN"), Entry(Loc4, "Lab")>>),
      L(<<Entry(Loc5, "DC")>>),
      L(<<Entry(Loc1, NoKey)>>),
      L(<<Entry(Loc5, "DC"), Entry(NoKey, "Ghost")>>),
      Absent }

MaxPages == 3

\* the next link of page i of n: none, the following page, or back to the first
NextLinks(i, n) == {0, 1} \cup (IF i < n THEN {i + 1} ELSE {})

PageDirectories ==
    UNION { { d \in [1..n -> [value : PageValues, next : 0..n]] :
                \A i \in 1..n : d[i].next \in NextLinks(i, n) } : n \in 1..MaxPages }

InitPages ==
    /\ FlagsIdle
    /\ doc = <<>>
    /\ cache = EmptyMap
    /\ pc = "locations"
    /\ all_ids = <<>>
    /\ idx = 1
    /\ frame = NoFrame
    /\ probes = <<>>
    /\ last = NoCall
    /\ firstRet = EmptyMap
    /\ authFailed = FALSE
    /\ statuses = <<>>
    /\ rw = StartRewrite
    /\ pages \in PageDirectories
    /\ url = 1
    /\ named_locations = EmptyMap
    /\ requests = <<>>

NextPages == PageRequest

SpecPages == InitPages /\ [][NextPages]_vars

\* the pages reached from page i by following the next links
RECURSIVE Walk(_, _)
Walk(i, fuel) ==
    IF i = 0 \/ fuel = 0 THEN <<>>
    ELSE <<i>> \o Walk(pages[i].next, fuel - 1)

RECURSIVE EntriesOf(_)
EntriesOf(chain) ==
    IF chain = <<>> THEN <<>>
    ELSE GetList(pages[Head(chain)].value) \o EntriesOf(Tail(chain))

\* C5: pagination completeness. When get_named_locations returns, it has
\* requested every page of the chain once and in chain order; the mapping's keys
\* are exactly the ids on those pages; each key is mapped to the displayName of
\* an entry with that id (to the id where the entry has none); and pages of
\* sizes 2, 2, 1 with distinct ids give exactly 5 entries.
C5_PaginationComplete ==
    pc = "rewrite" =>
        LET chain == Walk(1, Len(pages))
            entries == EntriesOf(chain)
        IN  /\ requests = chain
            /\ DOMAIN named_locations = {entries[i].id : i \in 1..Len(entries)}
            /\ \A id \in DOMAIN named_locations :
                  \E i \in 1..Len(entries) :
                      /\ entries[i].id = id
                      /\ named_locations[id] =
                            (IF entries[i].displayName = NoKey
                             THEN id ELSE entries[i].displayName)
                      /\ \A j \in 1..Len(entries) : entries[j].id = id => j <= i
            /\ ( /\ [i \in 1..Len(chain) |-> Len(GetList(pages[chain[i]].value))]
                       = <<2, 2, 1>>
                 /\ Cardinality({entries[i].id : i \in 1..Len(entries)}) = 5 )
               => Cardinality(DOMAIN named_locations) = 5

\* three pages of sizes 2, 2, 1 were fetched and the mapping has 5 entries
C5_Witness ==
    /\ pc = "rewrite"
    /\ requests = <<1, 2, 3>>
    /\ Len(GetList(pages[1].value)) = 2
    /\ Len(GetList(pages[2].value)) = 2
    /\ Len(GetList(pages[3].value)) = 1
    /\ Cardinality(DOMAIN named_locations) = 5

\* the loop of get_named_locations is sequential: a request that can be made
\* is made
SpecPagesFair == SpecPages /\ WF_vars(PageRequest)

\* the pages reached from the first one end with a page without next link
FiniteChain == Len(Walk(1, Len(pages) + 1)) <= Len(pages)

\* C20: termination of the pagination loop. The requests follow the chain of
\* next links from the first page, one request per page; every request but the
\* last one was for a page that was read and carried a next link, so nothing
\* is requested after a page without one; the function returns only after
\* such a page; when the chain is finite no page is requested twice and the
\* loop is eventually left; and a loop that is still running after more
\* requests than there are pages runs on a cycle of next links.
C20_PaginationTerminates ==
    /\ [] ( /\ \A i \in 1..Len(requests) :
                  /\ requests[i] = Walk(1, MaxRequests)[i]
                  /\ i < Len(requests) =>
                        /\ statuses[i] = StatusOk
                        /\ pages[requests[i]].next # 0
            /\ pc = "rewrite" =>
                  /\ url = 0
                  /\ requests # <<>>
                  /\ pages[requests[Len(requests)]].next = 0
            /\ FiniteChain =>
                  /\ Len(requests) <= Len(pages)
                  /\ \A i, j \in 1..Len(requests) :
                        requests[i] = requests[j] => i = j
            /\ (pc = "locations" /\ Len(requests) > Len(pages)) => ~FiniteChain )
    /\ [] (FiniteChain => <>(pc # "locations"))

\* a finite chain of three pages was fetched with three requests and the
\* function returned
C20_Witness ==
    /\ FiniteChain
    /\ pc = "rewrite"
    /\ Len(requests) = 3
    /\ url = 0

\* a page without a `value` list, or with an entry that has no `id`
MalformedPage(data) ==
    \/ data.value.tag # "list"
    \/ \E i \in 1..Len(data.value.v) : data.value.v[i].id = NoKey

\* C13: a malformed named-location page is fatal. Once a page that was
\* answered 200 lacks its `value` list or has an entry without `id`,
\* get_named_locations has raised: it neither goes on to the next page nor
\* returns a mapping.
C13_MalformedPageFatal ==
    \A i \in 1..Len(requests) :
        (statuses[i] = StatusOk /\ MalformedPage(pages[requests[i]]))
            => pc = "raised"

----------------------------------------------------------------------------
(* cap_parser.py: summarize_policy *)

PyNone == "<None>"

\* `d.get(key, [])`: the default stands in for an absent key only, null stays None
GetOr(m) == IF m.tag = "absent" THEN L(<<>>) ELSE m

\* `(d.get(name, {}) or {})[key]`: the member of a dict that may be absent or null
Field(d, key) == IF d.tag = "obj" THEN d[key] ELSE Absent

\* `cond.get(name, {}) or {}` for a member dict of conditions
Section(policy, name) ==
    IF policy.conditions.tag = "obj"
    THEN policy.conditions[name]
    ELSE [tag |-> "absent"]

\* `built_in_controls + custom_controls`, `a + b` of two lists; None raises
ListsRaise(a, b) == a.tag = "null" \/ b.tag = "null"
Plus(a, b) == IF ListsRaise(a, b) THEN Null ELSE L(a.v \o b.v)

\* line 37 raises TypeError
SummarizeRaises(policy) ==
    ListsRaise(GetOr(Field(policy.grantControls, "builtInControls")),
               GetOr(Field(policy.grantControls, "customAuthenticationFactors")))

\* an operator read without its default
OperatorNoDefault(grant) ==
    IF grant.tag = "obj" THEN grant.operator ELSE NoKey

\* `grant_controls.get("operator", "AND")`
Operator(grant) ==
    IF grant.tag = "obj" /\ grant.operator # NoKey THEN grant.operator ELSE "AND"

summarize_policy(policy) ==
    ("Name" :> (IF policy.displayName = NoKey THEN "Unknown" ELSE policy.displayName))
    @@ ("State" :> (IF policy.state = NoKey THEN "unknown" ELSE policy.state))
    @@ ("Included Users" :> GetOr(Field(Section(policy, "users"), "includeUsers")))
    @@ ("Excluded Users" :> GetOr(Field(Section(policy, "users"), "excludeUsers")))
    @@ ("Included Groups" :> GetOr(Field(Section(policy, "users"), "includeGroups")))
    @@ ("Included Applications" :>
            GetOr(Field(Section(policy, "applications"), "includeApplications")))
    @@ ("Excluded Applications" :>
            GetOr(Field(Section(policy, "applications"), "excludeApplications")))
    @@ ("Grant Controls" :>
            Plus(GetOr(Field(policy.grantControls, "builtInControls")),
                 GetOr(Field(policy.grantControls, "customAuthenticationFactors"))))
    @@ ("Grant Operator" :> Operator(policy.grantControls))
    @@ ("Session Controls" :>
            (IF policy.sessionControls.tag = "obj"
             THEN L(policy.sessionControls.keys) ELSE L(<<>>)))
    @@ ("User Risk Levels" :>
            GetOr(IF policy.conditions.tag = "obj"
                  THEN policy.conditions.userRiskLevels ELSE Absent))
    @@ ("Sign-in Risk Levels" :>
            GetOr(IF policy.conditions.tag = "obj"
                  THEN policy.conditions.signInRiskLevels ELSE Absent))
    @@ ("Device Platforms" :>
            [include |-> GetOr(Field(Section(policy, "devicePlatforms"), "includePlatforms")),
             exclude |-> GetOr(Field(Section(policy, "devicePlatforms"), "excludePlatforms"))])
    @@ ("Locations" :>
            [include |-> GetOr(Field(Section(policy, "locations"), "includeLocations")),
             exclude |-> GetOr(Field(Section(policy, "locations"), "excludeLocations"))])

----------------------------------------------------------------------------
(* cap_parser.py: is_mfa_policy and generate_security_flags *)

UpperCase ==
    <<"A", "B", "C", "D", "E", "F", "G", "H", "I", "J", "K", "L", "M", "N",
      "O", "P", "Q", "R", "S", "T", "U", "V", "W", "X", "Y", "Z">>
LowerCase ==
    <<"a", "b", "c", "d", "e", "f", "g", "h", "i", "j", "k", "l", "m", "n",
      "o", "p", "q", "r", "s", "t", "u", "v", "w", "x", "y", "z">>

\* a lower() that leaves every character as it is
LowerIdentity(cs) == cs

\* str.lower()
Lower(cs) ==
    [i \in 1..Len(cs) |->
        IF \E k \in 1..Len(UpperCase) : UpperCase[k] = cs[i]
        THEN LowerCase[CHOOSE k \in 1..Len(UpperCase) : UpperCase[k] = cs[i]]
        ELSE cs[i]]

\* `needle in hay`
Contains(hay, needle) ==
    \E k \in 0..(Len(hay) - Len(needle)) :
        \A j \in 1..Len(needle) : hay[k + j] = needle[j]

MfaWord == <<"m", "f", "a">>
MultifactorWord == <<"m", "u", "l", "t", "i", "f", "a", "c", "t", "o", "r">>

is_mfa_policy(s) ==
    \E i \in 1..Len(s["Grant Controls"].v) :
        \/ Contains(Lower(Chars(s["Grant Controls"].v[i])), MfaWord)
        \/ Contains(Lower(Chars(s["Grant Controls"].v[i])), MultifactorWord)

\* a truth test that takes an empty list for true
TruthyListAny(m) == m.tag = "list"

\* a list that is truthy: neither None nor empty
TruthyList(m) == m.tag = "list" /\ m.v # <<>>

Concern(text, arg) == [text |-> text, arg |-> arg]

\* the exclusion rule looking at the excluded users only
MfaExclusionUsersOnly(s) ==
    IF is_mfa_policy(s) /\ s["Excluded Users"].v # <<>>
    THEN <<Concern("Excludes identities from MFA", s["Excluded Users"].v)>>
    ELSE <<>>

\* lines 114-117
MfaExclusion(s) ==
    IF is_mfa_policy(s) /\ Plus(s["Excluded Users"], s["Included Groups"]).v # <<>>
    THEN <<Concern("Excludes identities from MFA",
                   Plus(s["Excluded Users"], s["Included Groups"]).v)>>
    ELSE <<>>

\* line 115 raises TypeError
FlagsRaise(s) ==
    is_mfa_policy(s) /\ ListsRaise(s["Excluded Users"], s["Included Groups"])

When(cond, text, arg) == IF cond THEN <<Concern(text, arg)>> ELSE <<>>

\* lines 111-139: the issues of one summary, in the order of the rules
Issues(s) ==
    MfaExclusion(s)
    \o When(TruthyList(s["User Risk Levels"]),
            "Applies User Risk Levels", s["User Risk Levels"].v)
    \o When(TruthyList(s["Sign-in Risk Levels"]),
            "Applies Sign-in Risk Levels", s["Sign-in Risk Levels"].v)
    \o When(TruthyList(s["Device Platforms"].include)
                /\ s["Device Platforms"].include.v # <<"all">>,
            "Restricted to Device Platforms", s["Device Platforms"].include.v)
    \o When(TruthyList(s["Device Platforms"].exclude),
            "Excluded Device Platforms", s["Device Platforms"].exclude.v)
    \o When(TruthyList(s["Locations"].include)
                /\ s["Locations"].include.v # <<"all">>,
            "Restricted to Locations", s["Locations"].include.v)
    \o When(TruthyList(s["Locations"].exclude),
            "Excluded Locations", s["Locations"].exclude.v)
    \o When(s["Grant Operator"] = "OR",
            "Grant Controls operator is OR, builtInControls", s["Grant Controls"].v)

\* lines 142-146: the entry of one policy
Finding(s, iss) ==
    ("Policy" :> s["Name"]) @@ ("State" :> s["State"]) @@ ("Security Concerns" :> iss)

\* lines 68-76 of print_summary: the exclusion warning is printed
MfaExclusionsPrinted(s) ==
    is_mfa_policy(s)
        /\ (TruthyList(s["Excluded Users"]) \/ TruthyList(s["Included Groups"]))

\* an engine that reports every policy, with or without issues
AddFindingAlways(f, s, iss) == Append(f, Finding(s, iss))

\* lines 141-146
AddFinding(f, s, iss) == IF iss # <<>> THEN Append(f, Finding(s, iss)) ELSE f

NoSummary == [called |-> FALSE, raised |-> FALSE, s |-> <<>>]

\* lines 109-146: one turn of the loop of generate_security_flags
FlagPolicy ==
    /\ fpc = "loop"
    /\ pos <= Len(policies)
    /\ IF SummarizeRaises(policies[pos])
       THEN /\ summary' = [called |-> TRUE, raised |-> TRUE, s |-> <<>>]
            /\ fpc' = "raised"
            /\ UNCHANGED <<pos, findings, issues>>
       ELSE /\ summary' = [called |-> TRUE, raised |-> FALSE,
                           s |-> summarize_policy(policies[pos])]
            /\ IF FlagsRaise(summarize_policy(policies[pos]))
               THEN /\ fpc' = "raised"
                    /\ UNCHANGED <<pos, findings, issues>>
               ELSE /\ issues' = Issues(summarize_policy(policies[pos]))
                    /\ findings' = AddFinding(findings,
                                              summarize_policy(policies[pos]),
                                              Issues(summarize_policy(policies[pos])))
                    /\ pos' = pos + 1
                    /\ UNCHANGED fpc
    /\ UNCHANGED <<policies, runVars>>

\* line 147: return findings
FlagsReturn ==
    /\ fpc = "loop"
    /\ pos > Len(policies)
    /\ fpc' = "done"
    /\ UNCHANGED <<policies, pos, findings, summary, issues, runVars>>

----------------------------------------------------------------------------
(* The policies handed to cap_parser.py *)

Grant(b, c, op) ==
    [tag |-> "obj", builtInControls |-> b, customAuthenticationFactors |-> c,
     operator |-> op]
NoGrant(tag) ==
    [tag |-> tag, builtInControls |-> Absent, customAuthenticationFactors |-> Absent,
     operator |-> NoKey]

GrantChoices ==
    { NoGrant("absent"),
      NoGrant("null"),
      Grant(L(<<"mfa">>), L(<<>>), "AND"),
      Grant(L(<<"Mfa", "compliantDevice">>), Absent, "OR"),
      Grant(L(<<"compliantDevice">>), L(<<>>), NoKey),
      Grant(L(<<"block">>), L(<<"requireMultifactorAuthentication">>), "OR"),
      Grant(Null, L(<<>>), "AND"),
      Grant(L(<<"compliantDevice">>), Absent, PyNone),
      Grant(L(<<"Mfa">>), Absent, "AND"),
      Grant(Absent, L(<<"requireMultifactorAuthentication">>), "AND") }

Users(i, e, g) ==
    [tag |-> "obj", includeUsers |-> i, excludeUsers |-> e, includeGroups |-> g]

UsersChoices ==
    { NoUsers("absent"),
      Users(L(<<SentinelAll>>), L(<<>>), L(<<>>)),
      Users(L(<<SentinelAll>>), L(<<U1>>), Absent),
      Users(Absent, L(<<>>), L(<<"Finance Team">>)),
      Users(L(<<SentinelAll>>), Null, L(<<"Finance Team">>)),
      Users(L(<<SentinelAll>>), L(<<U1>>), L(<<"Finance Team">>)) }

Platforms(i, e) == [tag |-> "obj", includePlatforms |-> i, excludePlatforms |-> e]
NoPlatforms(tag) ==
    [tag |-> tag, includePlatforms |-> Absent, excludePlatforms |-> Absent]

PlatformChoices ==
    { NoPlatforms("absent"),
      Platforms(L(<<"all">>), Absent),
      Platforms(L(<<"iOS">>), L(<<"android">>)),
      Platforms(Absent, L(<<"android">>)),
      Platforms(L(<<"iOS", "all">>), L(<<>>)) }

Locations(i, e) == [tag |-> "obj", includeLocations |-> i, excludeLocations |-> e]

LocationChoices ==
    { NoLocs("absent"),
      NoLocs("null"),
      Locations(L(<<"all">>), Absent),
      Locations(L(<<SentinelAll>>), L(<<>>)),
      Locations(L(<<"HQ">>), L(<<"Branch">>)),
      Locations(L(<<>>), L(<<"Branch">>)) }

UserRiskChoices == {Absent, Null, L(<<"high">>)}
SignInRiskChoices == {L(<<>>), L(<<"medium", "high">>)}

ConditionChoices ==
    { [tag |-> "obj", users |-> u,
       applications |-> [tag |-> "obj", includeApplications |-> L(<<SentinelAll>>),
                         excludeApplications |-> Absent],
       locations |-> l, devicePlatforms |-> d,
       userRiskLevels |-> ur, signInRiskLevels |-> sr] :
        u \in UsersChoices, l \in LocationChoices, d \in PlatformChoices,
        ur \in UserRiskChoices, sr \in SignInRiskChoices }

NoConditions(tag) ==
    [tag |-> tag, users |-> NoUsers("absent"), applications |-> NoApps("absent"),
     locations |-> NoLocs("absent"), devicePlatforms |-> NoPlatforms("absent"),
     userRiskLevels |-> Absent, signInRiskLevels |-> Absent]

MetaChoices ==
    { [name |-> "Require MFA", state |-> "enabled",
       session |-> [tag |-> "absent", keys |-> <<>>]],
      [name |-> NoKey, state |-> NoKey,
       session |-> [tag |-> "null", keys |-> <<>>]],
      [name |-> "Report only", state |-> "enabledForReportingButNotEnforced",
       session |-> [tag |-> "obj", keys |-> <<"signInFrequency">>]] }

RawPolicy(meta, cond, grant) ==
    [displayName |-> meta.name, state |-> meta.state,
     sessionControls |-> meta.session, conditions |-> cond, grantControls |-> grant]

FlagPolicies ==
    { RawPolicy(m, c, g) :
        m \in MetaChoices,
        c \in ConditionChoices \cup {NoConditions("absent"), NoConditions("null")},
        g \in GrantChoices }

Named(n) ==
    [name |-> n, state |-> "enabled", session |-> [tag |-> "absent", keys |-> <<>>]]

Quiet ==
    [tag |-> "obj", users |-> Users(L(<<SentinelAll>>), L(<<>>), L(<<>>)),
     applications |-> NoApps("absent"), locations |-> NoLocs("absent"),
     devicePlatforms |-> Platforms(L(<<"all">>), Absent),
     userRiskLevels |-> Absent, signInRiskLevels |-> L(<<>>)]

\* the policies batches are made of: two that trigger no rule, two that trigger
\* some, one that makes summarize_policy raise
BatchPolicies ==
    { RawPolicy(Named("quiet"), Quiet, Grant(L(<<"mfa">>), L(<<>>), "AND")),
      RawPolicy(Named("bare"), NoConditions("null"), NoGrant("null")),
      RawPolicy(Named("excluding"),
                [Quiet EXCEPT !.users = Users(L(<<SentinelAll>>), L(<<U1>>), Absent)],
                Grant(L(<<"mfa">>), L(<<>>), "AND")),
      RawPolicy(Named("risky"),
                [Quiet EXCEPT !.userRiskLevels = L(<<"high">>),
                              !.locations = Locations(L(<<"HQ">>), L(<<"Branch">>))],
                Grant(L(<<"block">>), Absent, "OR")),
      RawPolicy(Named("broken"), Quiet, Grant(Null, L(<<>>), "AND")) }

MaxBatch == 2

Batches ==
    { <<p>> : p \in FlagPolicies }
        \cup UNION { [1..n -> BatchPolicies] : n \in 0..MaxBatch }

RunIdle ==
    /\ doc = <<>>
    /\ cache = EmptyMap
    /\ pc = "idle"
    /\ all_ids = <<>>
    /\ idx = 1
    /\ frame = NoFrame
    /\ probes = <<>>
    /\ last = NoCall
    /\ firstRet = EmptyMap
    /\ authFailed = FALSE
    /\ statuses = <<>>
    /\ rw = StartRewrite
    /\ pages = <<>>
    /\ url = 0
    /\ named_locations = EmptyMap
    /\ requests = <<>>

\* __main__ of cap_parser.py: generate_security_flags(policies)
InitFlags ==
    /\ RunIdle
    /\ policies \in Batches
    /\ pos = 1
    /\ findings = <<>>
    /\ fpc = "loop"
    /\ summary = NoSummary
    /\ issues = <<>>

NextFlags ==
    \/ FlagPolicy
    \/ FlagsReturn

SpecFlags == InitFlags /\ [][NextFlags]_vars

----------------------------------------------------------------------------
(* The claims about cap_parser.py, under SpecFlags *)

MfaText == "Excludes identities from MFA"

\* the last policy was evaluated to its end: `issues` is the list made from `summary`
Evaluated == summary.called /\ ~summary.raised /\ fpc # "raised"

NonEmpty(m) == m.tag = "list" /\ Len(m.v) > 0

\* the end-to-end scenario of the specification: one MFA policy, operator AND,
\* all users included, one user excluded, no other condition
IsScenario(p) ==
    /\ p.grantControls.tag = "obj"
    /\ p.grantControls.builtInControls = L(<<"mfa">>)
    /\ p.grantControls.customAuthenticationFactors \in {Absent, L(<<>>)}
    /\ p.grantControls.operator = "AND"
    /\ p.conditions.tag = "obj"
    /\ p.conditions.users.tag = "obj"
    /\ p.conditions.users.includeUsers = L(<<"All">>)
    /\ p.conditions.users.excludeUsers = L(<<U1>>)
    /\ p.conditions.users.includeGroups \in {Absent, L(<<>>)}
    /\ p.conditions.userRiskLevels \in {Absent, L(<<>>)}
    /\ p.conditions.signInRiskLevels \in {Absent, L(<<>>)}
    /\ p.conditions.devicePlatforms.tag # "obj"
    /\ p.conditions.locations.tag # "obj"

\* C6: the MFA-exclusion concern. A policy evaluated to its end has the concern
\* exactly when it is an MFA policy and its Excluded Users or its Included
\* Groups are non-empty, the concern comes first, once, and names both lists;
\* print_summary prints its warning for the same policies; and the scenario
\* policy alone yields one entry with exactly that one concern, naming the
\* excluded user.
C6_MfaExclusion ==
    /\ Evaluated =>
          /\ (\E i \in 1..Len(issues) : issues[i].text = MfaText)
                <=> ( /\ is_mfa_policy(summary.s)
                      /\ \/ NonEmpty(summary.s["Excluded Users"])
                         \/ NonEmpty(summary.s["Included Groups"]) )
          /\ \A i \in 1..Len(issues) :
                issues[i].text = MfaText =>
                    /\ i = 1
                    /\ issues[i].arg = summary.s["Excluded Users"].v
                                          \o summary.s["Included Groups"].v
          /\ (\E i \in 1..Len(issues) : issues[i].text = MfaText)
                <=> MfaExclusionsPrinted(summary.s)
    /\ (fpc = "done" /\ Len(policies) = 1 /\ IsScenario(policies[1])) =>
          /\ Len(findings) = 1
          /\ findings[1]["Security Concerns"] = <<Concern(MfaText, <<U1>>)>>
          /\ findings[1]["State"] = summary.s["State"]

\* the scenario policy was evaluated and reported
C6_Witness ==
    /\ fpc = "done"
    /\ Len(policies) = 1
    /\ IsScenario(policies[1])
    /\ policies[1].state = "enabledForReportingButNotEnforced"
    /\ Len(findings) = 1
    /\ Len(findings[1]["Security Concerns"]) = 1

ListFields ==
    {"Included Users", "Excluded Users", "Included Groups", "Included Applications",
     "Excluded Applications", "Grant Controls", "Session Controls",
     "User Risk Levels", "Sign-in Risk Levels"}

\* C9: the normalizer has no error conditions: summarize_policy never raises and
\* every list-valued field of its summary is a sequence, its Grant Operator
\* a defined operator.
C9_NormalizerTotal ==
    summary.called =>
        /\ ~summary.raised
        /\ \A f \in ListFields : summary.s[f].tag = "list"
        /\ summary.s["Device Platforms"].include.tag = "list"
        /\ summary.s["Device Platforms"].exclude.tag = "list"
        /\ summary.s["Locations"].include.tag = "list"
        /\ summary.s["Locations"].exclude.tag = "list"
        /\ summary.s["Grant Operator"] \in {"AND", "OR"}

\* policy number i, already evaluated, triggers a rule
Triggers(i) == Issues(summarize_policy(policies[i])) # <<>>

\* C10: the findings collection. While generate_security_flags runs and when it
\* returns, findings holds exactly one entry for each policy evaluated so far
\* that triggers a rule and none for the others, in the order of the policies;
\* each entry carries its policy's name and state and a non-empty concern list.
C10_FindingsCollection ==
    fpc \in {"loop", "done"} =>
        LET trig == {i \in 1..(pos - 1) : Triggers(i)}
            nth(j) == CHOOSE i \in trig : Cardinality({k \in trig : k <= i}) = j
        IN  /\ fpc = "done" => pos - 1 = Len(policies)
            /\ Len(findings) = Cardinality(trig)
            /\ \A j \in 1..Len(findings) :
                  /\ findings[j]["Security Concerns"] # <<>>
                  /\ findings[j]["Security Concerns"]
                        = Issues(summarize_policy(policies[nth(j)]))
                  /\ findings[j]["Policy"] = summarize_policy(policies[nth(j)])["Name"]
                  /\ findings[j]["State"] = summarize_policy(policies[nth(j)])["State"]

\* of two policies the first triggers nothing and is left out, the second is reported
C10_Witness ==
    /\ fpc = "done"
    /\ Len(policies) = 2
    /\ ~Triggers(1)
    /\ Triggers(2)
    /\ Len(findings) = 1
    /\ findings[1]["Policy"] = "excluding"

\* the texts of the rules, in the order of the rule table
RuleOrder ==
    << MfaText,
       "Applies User Risk Levels",
       "Applies Sign-in Risk Levels",
       "Restricted to Device Platforms",
       "Excluded Device Platforms",
       "Restricted to Locations",
       "Excluded Locations",
       "Grant Controls operator is OR, builtInControls" >>

\* the condition of rule number r (2..8) on a summary, as the rule table states it
RuleHolds(r, s) ==
    IF r = 2 THEN NonEmpty(s["User Risk Levels"])
    ELSE IF r = 3 THEN NonEmpty(s["Sign-in Risk Levels"])
    ELSE IF r = 4 THEN NonEmpty(s["Device Platforms"].include)
                       /\ s["Device Platforms"].include.v # <<"all">>
    ELSE IF r = 5 THEN NonEmpty(s["Device Platforms"].exclude)
    ELSE IF r = 6 THEN NonEmpty(s["Locations"].include)
                       /\ s["Locations"].include.v # <<"all">>
    ELSE IF r = 7 THEN NonEmpty(s["Locations"].exclude)
    ELSE s["Grant Operator"] = "OR"

\* the list rule number r (2..8) reports
RuleArg(r, s) ==
    IF r = 2 THEN s["User Risk Levels"].v
    ELSE IF r = 3 THEN s["Sign-in Risk Levels"].v
    ELSE IF r = 4 THEN s["Device Platforms"].include.v
    ELSE IF r = 5 THEN s["Device Platforms"].exclude.v
    ELSE IF r = 6 THEN s["Locations"].include.v
    ELSE IF r = 7 THEN s["Locations"].exclude.v
    ELSE s["Grant Controls"].v

\* C16: the rule table. For a policy evaluated to its end, each of the seven
\* rules after the MFA-exclusion rule has its concern in the issues exactly
\* when its own condition holds, whatever the other rules do, once and with
\* its own list; the operator concern is absent for AND; every concern is one
\* of the eight, and the concerns stand in the order of the rule table.
C16_RuleTable ==
    Evaluated =>
        /\ \A r \in 2..Len(RuleOrder) :
              /\ (\E i \in 1..Len(issues) : issues[i].text = RuleOrder[r])
                    <=> RuleHolds(r, summary.s)
              /\ \A i \in 1..Len(issues) :
                    issues[i].text = RuleOrder[r] => issues[i].arg = RuleArg(r, summary.s)
        /\ summary.s["Grant Operator"] = "AND" =>
              \A i \in 1..Len(issues) : issues[i].text # RuleOrder[Len(RuleOrder)]
        /\ \A i \in 1..Len(issues) :
              \E r \in 1..Len(RuleOrder) : issues[i].text = RuleOrder[r]
        /\ \A i, j \in 1..Len(issues) :
              i < j => \E r, q \in 1..Len(RuleOrder) :
                          /\ r < q
                          /\ issues[i].text = RuleOrder[r]
                          /\ issues[j].text = RuleOrder[q]

\* one policy triggers all eight rules, the operator rule with Mfa and
\* compliantDevice under OR
C16_Witness ==
    /\ Evaluated
    /\ Len(issues) = Len(RuleOrder)
    /\ summary.s["Grant Operator"] = "OR"
    /\ summary.s["Grant Controls"].v = <<"Mfa", "compliantDevice">>

\* character c is the lower-case letter l or its capital
SameLetter(c, l) ==
    c = l \/ \E n \in 1..Len(UpperCase) : UpperCase[n] = c /\ LowerCase[n] = l

\* the lower-case word stands somewhere in the entry, in any casing
Mentions(entry, word) ==
    \E k \in 0..(Len(entry) - Len(word)) :
        \A j \in 1..Len(word) : SameLetter(entry[k + j], word[j])

\* C17: MFA classification. For every summary the normalizer produced,
\* is_mfa_policy is true exactly when some entry of Grant Controls contains
\* "mfa" or "multifactor" in any casing: true for ["Mfa"] and for
\* ["requireMultifactorAuthentication"], false for ["compliantDevice"] and for
\* the empty list; and the MFA-exclusion concern is raised for such policies only.
C17_MfaClassification ==
    (summary.called /\ ~summary.raised) =>
        LET g == summary.s["Grant Controls"].v
        IN  /\ is_mfa_policy(summary.s)
                  <=> \E i \in 1..Len(g) :
                          \/ Mentions(Chars(g[i]), MfaWord)
                          \/ Mentions(Chars(g[i]), MultifactorWord)
            /\ g = <<"Mfa">> => is_mfa_policy(summary.s)
            /\ g = <<"requireMultifactorAuthentication">> => is_mfa_policy(summary.s)
            /\ g = <<"compliantDevice">> => ~is_mfa_policy(summary.s)
            /\ g = <<>> => ~is_mfa_policy(summary.s)
            /\ (Evaluated /\ \E i \in 1..Len(issues) : issues[i].text = MfaText)
                  => is_mfa_policy(summary.s)

\* a policy whose only grant control is "Mfa" was classified as an MFA policy
C17_Witness ==
    /\ Evaluated
    /\ summary.s["Grant Controls"].v = <<"Mfa">>
    /\ issues # <<>>
    /\ issues[1].text = MfaText

\* the policy the last summarize_policy call was made for
LastPolicy == IF fpc = "raised" THEN policies[pos] ELSE policies[pos - 1]

\* C18: default filling. For a raw policy without a grantControls object,
\* summarize_policy returns normally with Grant Operator "AND" and Grant
\* Controls []; the policy is not classified as an MFA policy, its evaluation
\* does not raise, and its issues hold neither the MFA-exclusion concern nor
\* the grant-operator concern.
C18_DefaultFilling ==
    (summary.called /\ LastPolicy.grantControls.tag = "absent") =>
        /\ ~summary.raised
        /\ fpc # "raised"
        /\ summary.s["Grant Operator"] = "AND"
        /\ summary.s["Grant Controls"] = L(<<>>)
        /\ ~is_mfa_policy(summary.s)
        /\ \A i \in 1..Len(issues) :
              /\ issues[i].text # MfaText
              /\ issues[i].text # RuleOrder[Len(RuleOrder)]

\* a policy without grantControls that excludes a user and triggers the six
\* rules on risk, platforms and locations was evaluated and reported
C18_Witness ==
    /\ fpc = "done"
    /\ Len(policies) = 1
    /\ policies[1].grantControls.tag = "absent"
    /\ summary.s["Excluded Users"].v # <<>>
    /\ Len(issues) = 6
    /\ Len(findings) = 1

====
